---- MODULE Spec2Model ----
(***************************************************************************)
(* Expense Tracker: the SQLite expense store shared by the Tkinter         *)
(* front-end (expense_tracker.py) and the Streamlit front-end              *)
(* (expense_tracker_streamlit.py), the filter, the statistics, the outlier *)
(* detector and the CSV import/export.                                     *)
(*                                                                         *)
(* Modelling conventions                                                   *)
(*  - the table `expenses` is the sequence `store` of its rows in rowid    *)
(*    order; `seq` is the AUTOINCREMENT counter SQLite keeps in            *)
(*    sqlite_sequence;                                                     *)
(*  - amounts are integers (the REAL values the model draws are small      *)
(*    whole numbers, on which the float arithmetic of the code is exact);  *)
(*  - a text that is only compared for equality is a TLA+ string; a text   *)
(*    that is searched (description, keyword) is a sequence of             *)
(*    one-character strings;                                               *)
(*  - Streamlit's definitions carry the prefix st_.                        *)
(***************************************************************************)
EXTENDS Integers, Sequences, FiniteSets, TLC

VARIABLES
    store,      \* table expenses: sequence of rows in rowid order
    seq,        \* sqlite_sequence.seq for table expenses
    ret,        \* what the last store call returned to its caller
    lastOp,     \* the last store call: its kind, id argument, and whether the id existed
    before,     \* history: the table as it was when the last call began
    log,        \* history: every add/update/delete call made so far
    issued,     \* history: the ids add_expense has assigned, in order
    \* Tkinter front-end (class ExpenseTracker)
    filter_vars,        \* texts of the six filter widgets
    filtered_expenses,  \* self.filtered_expenses
    outlier_ids,        \* self.outlier_ids
    stats,              \* the KPI dict refresh_dashboard shows
    cat_values,         \* the choices of the category filter box
    outcome,            \* how the last callback ended, and what it did
    form,               \* texts of the four entries of the Add/Edit form
    selected_item_id,   \* self.selected_item_id
    edit_mode,          \* self.edit_mode
    report,             \* what the last report_period call aggregated
    loaded,             \* history: the id whose record start_edit last put into the form
    \* Streamlit front-end (one run of the script)
    st_widgets,         \* values of the filter widgets
    st_filtered_df,     \* filtered_df
    st_stats,           \* stats
    st_outlier_ids,     \* outlier_ids
    st_outcome,         \* how the last run ended
    st_report,          \* what the report block of the last run aggregated
    \* files and function arguments
    file,               \* the CSV file the last export wrote
    crit                \* the criteria sets applied one after the other (SpecFilter)

coreVars == <<store, seq, ret, lastOp, before, log, issued>>
tkFormVars == <<form, selected_item_id, edit_mode, report, loaded>>
tkVars == <<filter_vars, filtered_expenses, outlier_ids, stats, cat_values, outcome, tkFormVars>>
stVars == <<st_widgets, st_filtered_df, st_stats, st_outlier_ids, st_outcome, st_report>>
vars == <<coreVars, tkVars, stVars, file, crit>>

----------------------------------------------------------------------------
(* Bounds and input domains *)

MaxOps == 3         \* store calls in one run of Spec
MaxColl == 6        \* rows of a collection handed to the statistics (SpecStats)
MaxRows == 2        \* rows of a table handed to the filter (SpecFilter)
MaxSupplied == 2    \* criteria supplied in one criteria set (SpecFilter)
MaxTkRows == 1      \* rows in the table when the Tkinter application starts (SpecTk)
MaxTyped == 2       \* filter widgets holding something other than their default (SpecTk)
MaxIoRows == 1      \* rows in the table before any import (SpecIO)
MaxFileRows == 2    \* rows of a file the user made (SpecIO)
MaxImports == 1     \* imports in one run of SpecIO
MaxRestarts == 1    \* second evaluations of the statistics in one run of SpecStats

Categories == {"Food", "Rent"}

EmptyStr == <<>>

\* Field values (everything but the id) a caller passes to add/update.
Payloads ==
    { [amount |-> 1, category |-> "Food", date |-> "2024-01-01", description |-> <<"a">>],
      [amount |-> 5, category |-> "Rent", date |-> "2024-01-15", description |-> EmptyStr],
      [amount |-> 0, category |-> "Food", date |-> "2024-01-15", description |-> <<"A", "b">>] }

----------------------------------------------------------------------------
(* Sequence helpers *)

Range(s) == { s[i] : i \in DOMAIN s }

RECURSIVE MapIds(_)
MapIds(rows) ==
    IF rows = <<>> THEN <<>> ELSE <<Head(rows).id>> \o MapIds(Tail(rows))

Ids(rows) == { rows[i].id : i \in DOMAIN rows }

Max(S) == CHOOSE x \in S : \A y \in S : y <= x

----------------------------------------------------------------------------
(* Database functions (identical in both front-ends) *)

\* CREATE TABLE IF NOT EXISTS on a fresh database file: no rows, no counter.
init_db_store == <<>>
init_db_seq == 0

\* INTEGER PRIMARY KEY AUTOINCREMENT: the new rowid is one more than the
\* largest rowid the table has ever held (sqlite_sequence), never a freed one.
AutoIncrementReuse(rows, s) == IF rows = <<>> THEN 1 ELSE Max(Ids(rows)) + 1
AutoIncrement(rows, s) ==
    (IF rows = <<>> THEN s ELSE Max({s} \cup Ids(rows))) + 1

MkRow(i, p) ==
    [id |-> i, amount |-> p.amount, category |-> p.category,
     date |-> p.date, description |-> p.description]

\* INSERT INTO expenses (amount, category, date, description) VALUES (?,?,?,?)
InsertRow(rows, s, p) == Append(rows, MkRow(AutoIncrement(rows, s), p))

\* UPDATE expenses SET amount=?, category=?, date=?, description=? WHERE id=?
UpdateRowsAll(rows, id, p) ==
    [i \in DOMAIN rows |-> MkRow(rows[i].id, p)]
UpdateRows(rows, id, p) ==
    [i \in DOMAIN rows |-> IF rows[i].id = id THEN MkRow(rows[i].id, p) ELSE rows[i]]

\* DELETE FROM expenses WHERE id=?
DeleteRows(rows, id) ==
    LET keep(r) == r.id # id IN SelectSeq(rows, keep)

\* Every database function of the code ends without a return statement.
NoneValue == "None"

add_expense(p) ==
    /\ store' = InsertRow(store, seq, p)
    /\ seq' = AutoIncrement(store, seq)
    /\ ret' = NoneValue

update_expense(id, p) ==
    /\ store' = UpdateRows(store, id, p)
    /\ seq' = seq
    /\ ret' = NoneValue

delete_expense(id) ==
    /\ store' = DeleteRows(store, id)
    /\ seq' = seq
    /\ ret' = NoneValue

----------------------------------------------------------------------------
(* Python and SQLite values *)

\* An optional argument: None, or Some(v).
None == <<>>
Some(v) == <<v>>

\* Python truthiness of an optional text: None and the empty text are falsy.
TruthyStr(o) == o # None /\ o[1] # ""
TruthyChars(o) == o # None /\ o[1] # EmptyStr

\* The texts the model compares, in the byte order SQLite's BINARY collation
\* and Python's str comparison give them.
LexOrder ==
    << "", "2023-12-31", "2024-01-01", "2024-01-10", "2024-01-15", "2024-02-30",
       "2024-04-01", "2024-1-5",
       "All", "Food", "Rent", "abc", "nan" >>
LexRank(t) == CHOOSE i \in DOMAIN LexOrder : LexOrder[i] = t
TextLeq(a, b) == LexRank(a) <= LexRank(b)

\* ASCII lower case of one character.
Lower(c) == CASE c = "A" -> "a" [] c = "B" -> "b" [] OTHER -> c

\* SQLite's LIKE: % matches any run of characters, _ any one character, any
\* other character itself, ASCII letters without regard to case.
RECURSIVE Like(_, _)
Like(pat, s) ==
    IF pat = <<>> THEN s = <<>>
    ELSE IF Head(pat) = "%"
        THEN Like(Tail(pat), s) \/ (s # <<>> /\ Like(pat, Tail(s)))
    ELSE IF Head(pat) = "_"
        THEN s # <<>> /\ Like(Tail(pat), Tail(s))
    ELSE s # <<>> /\ Lower(Head(pat)) = Lower(Head(s)) /\ Like(Tail(pat), Tail(s))

\* Python's re, for the patterns the model draws (literal characters and
\* the dot): whether pat matches s from its first character on.
RECURSIVE ReMatchAt(_, _)
ReMatchAt(pat, s) ==
    IF pat = <<>> THEN TRUE
    ELSE /\ s # <<>>
         /\ (Head(pat) = "." \/ Lower(Head(pat)) = Lower(Head(s)))
         /\ ReMatchAt(Tail(pat), Tail(s))

\* re.search(pat, s, re.IGNORECASE) is not None
ReSearch(pat, s) ==
    \E k \in 0..Len(s) : ReMatchAt(pat, SubSeq(s, k + 1, Len(s)))

----------------------------------------------------------------------------
(* Filter criteria *)

NoCriteria ==
    [start_date |-> None, end_date |-> None, category |-> None,
     min_amount |-> None, max_amount |-> None, desc_keyword |-> None]

\* The WHERE clause get_filtered_expenses builds, evaluated on one row.
SqlWhereOr(r, c) ==
    \/ c = NoCriteria
    \/ TruthyStr(c.start_date) /\ TextLeq(c.start_date[1], r.date)
    \/ TruthyStr(c.end_date) /\ TextLeq(r.date, c.end_date[1])
    \/ (TruthyStr(c.category) /\ c.category[1] # "All") /\ r.category = c.category[1]
    \/ c.min_amount # None /\ r.amount >= c.min_amount[1]
    \/ c.max_amount # None /\ r.amount <= c.max_amount[1]
    \/ TruthyChars(c.desc_keyword) /\
            Like(<<"%">> \o c.desc_keyword[1] \o <<"%">>, r.description)
SqlWhere(r, c) ==
    /\ TruthyStr(c.start_date) => TextLeq(c.start_date[1], r.date)
    /\ TruthyStr(c.end_date) => TextLeq(r.date, c.end_date[1])
    /\ (TruthyStr(c.category) /\ c.category[1] # "All") => r.category = c.category[1]
    /\ c.min_amount # None => r.amount >= c.min_amount[1]
    /\ c.max_amount # None => r.amount <= c.max_amount[1]
    /\ TruthyChars(c.desc_keyword) =>
            Like(<<"%">> \o c.desc_keyword[1] \o <<"%">>, r.description)

\* SELECT id, amount, category, date, description FROM expenses WHERE ...
\* run against the table `rows`; the rows come back in rowid order.
get_filtered_expenses(rows, c) ==
    LET where(r) == SqlWhere(r, c) IN SelectSeq(rows, where)

----------------------------------------------------------------------------
(* Numbers: the floats of the code as exact fractions, NaN apart *)

RECURSIVE Gcd(_, _)
Gcd(a, b) == IF b = 0 THEN a ELSE Gcd(b, a % b)

Abs(x) == IF x < 0 THEN -x ELSE x

NaN == [nan |-> TRUE, num |-> 0, den |-> 1]

\* num/den in lowest terms, den > 0.
Rat(n, d) ==
    LET g == Gcd(Abs(n), d) IN [nan |-> FALSE, num |-> n \div g, den |-> d \div g]

\* The square root of a fraction, kept as that fraction.
SqrtOf(v) == [sqrtOf |-> v]

RECURSIVE SumAmounts(_)
SumAmounts(rows) ==
    IF rows = <<>> THEN 0 ELSE Head(rows).amount + SumAmounts(Tail(rows))

RECURSIVE SumSquares(_)
SumSquares(rows) ==
    IF rows = <<>> THEN 0
    ELSE Head(rows).amount * Head(rows).amount + SumSquares(Tail(rows))

\* n * sum(x^2) - sum(x)^2 = n^2 * (the mean squared deviation)
ScaledDeviation(rows) ==
    Len(rows) * SumSquares(rows) - SumAmounts(rows) * SumAmounts(rows)

Mean(rows) == Rat(SumAmounts(rows), Len(rows))

\* numpy: np.var / np.std with the default ddof=0 divide by n.
NumpyVar(rows) == Rat(ScaledDeviation(rows), Len(rows) * Len(rows))

\* pandas: Series.var / Series.std with the default ddof=1 divide by n - 1,
\* and are NaN for a single value.
PandasVar(rows) ==
    IF Len(rows) < 2 THEN NaN
    ELSE Rat(ScaledDeviation(rows), Len(rows) * (Len(rows) - 1))

RECURSIVE InsertSorted(_, _)
InsertSorted(x, s) ==
    IF s = <<>> THEN <<x>>
    ELSE IF x <= Head(s) THEN <<x>> \o s
    ELSE <<Head(s)>> \o InsertSorted(x, Tail(s))

RECURSIVE SortedAmounts(_)
SortedAmounts(rows) ==
    IF rows = <<>> THEN <<>>
    ELSE InsertSorted(Head(rows).amount, SortedAmounts(Tail(rows)))

Median(rows) ==
    LET a == SortedAmounts(rows)
        n == Len(a)
    IN  IF n % 2 = 1 THEN Rat(a[(n + 1) \div 2], 1)
        ELSE Rat(a[n \div 2] + a[n \div 2 + 1], 2)

MinAmount(rows) == SortedAmounts(rows)[1]
MaxAmount(rows) == SortedAmounts(rows)[Len(rows)]

\* x > 2 * std, for a fraction x and std the root of the fraction std.sqrtOf;
\* every comparison with NaN is false.
GtTwoStd(x, std) ==
    LET v == std.sqrtOf IN
    /\ ~v.nan
    /\ x.num > 0
    /\ x.num * x.num * v.den > 4 * v.num * x.den * x.den

\* amount - mean and mean - amount
Minus(a, mean) == Rat(a * mean.den - mean.num, mean.den)
Neg(x) == [x EXCEPT !.num = -x.num]
AbsRat(x) == [x EXCEPT !.num = Abs(x.num)]

CatCount(rows, c) == Cardinality({ i \in DOMAIN rows : rows[i].category = c })
CatsOf(rows) == { rows[i].category : i \in DOMAIN rows }

\* The categories that occur most often.
ModalCats(rows) ==
    { c \in CatsOf(rows) : \A d \in CatsOf(rows) : CatCount(rows, d) <= CatCount(rows, c) }

----------------------------------------------------------------------------
(* Analysis functions, Tkinter front-end *)

\* `return {}`: a dict without any key (ZeroStats: what a dict of zero-valued
\* KPI fields would be).
ZeroStats ==
    [keys |-> {"total", "average", "median", "min", "max", "std", "var", "most_freq_cat"},
     total |-> Rat(0, 1), average |-> Rat(0, 1), median |-> Rat(0, 1), min |-> Rat(0, 1),
     max |-> Rat(0, 1), std |-> SqrtOf(Rat(0, 1)), var |-> Rat(0, 1),
     most_freq_cat |-> "None"]
EmptyStats == [keys |-> {}]

\* max(set(cats), key=cats.count) returns the first category of highest count
\* in the iteration order of the set, which Python's string hashing fixes per
\* process: any modal category may come out, so it is the argument cat.
get_stats(expenses, cat) ==
    IF expenses = <<>> THEN EmptyStats
    ELSE [keys |-> {"total", "average", "median", "min", "max", "std", "var", "most_freq_cat"},
          total |-> Rat(SumAmounts(expenses), 1),
          average |-> Mean(expenses),
          median |-> Median(expenses),
          min |-> Rat(MinAmount(expenses), 1),
          max |-> Rat(MaxAmount(expenses), 1),
          std |-> SqrtOf(NumpyVar(expenses)),
          var |-> NumpyVar(expenses),
          most_freq_cat |-> cat]

get_stats_results(expenses) ==
    IF expenses = <<>> THEN {EmptyStats}
    ELSE { get_stats(expenses, cat) : cat \in ModalCats(expenses) }

detect_outliers(expenses) ==
    IF expenses = <<>> THEN {}
    ELSE LET mean == Mean(expenses)
             std == SqrtOf(NumpyVar(expenses))
         IN  { expenses[i].id : i \in
                 { j \in DOMAIN expenses :
                     GtTwoStd(AbsRat(Minus(expenses[j].amount, mean)), std) } }

----------------------------------------------------------------------------
(* Analysis functions, Streamlit front-end *)

\* Series.mode() lists the modal values in ascending order; [0] is the least.
st_mode0(df) ==
    CHOOSE c \in ModalCats(df) : \A d \in ModalCats(df) : TextLeq(c, d)

st_get_stats(df) ==
    IF df = <<>> THEN EmptyStats
    ELSE [keys |-> {"total", "average", "median", "min", "max", "std", "var", "most_freq_cat"},
          total |-> Rat(SumAmounts(df), 1),
          average |-> Mean(df),
          median |-> Median(df),
          min |-> Rat(MinAmount(df), 1),
          max |-> Rat(MaxAmount(df), 1),
          std |-> SqrtOf(PandasVar(df)),
          var |-> PandasVar(df),
          most_freq_cat |-> st_mode0(df)]

st_detect_outliers(df) ==
    IF df = <<>> THEN {}
    ELSE LET mean == Mean(df)
             std == SqrtOf(PandasVar(df))
         IN  { df[i].id : i \in
                 { j \in DOMAIN df :
                     \/ GtTwoStd(Minus(df[j].amount, mean), std)
                     \/ GtTwoStd(Neg(Minus(df[j].amount, mean)), std) } }

----------------------------------------------------------------------------
(* Values both front-ends start from *)

\* No report drawn yet.
NoReport == [period |-> "", raised |-> "", totals |-> <<>>, members |-> <<>>]

\* datetime.now().strftime('%Y-%m-%d') on the day of the run.
Today == "2024-01-15"

\* create_widgets: the form entries are empty, the date entry shows today.
FormDefaults == [amount |-> "", category |-> "", date |-> Today, description |-> EmptyStr]

----------------------------------------------------------------------------
(* Streamlit front-end: loading and filtering *)

\* SELECT * FROM expenses ORDER BY date DESC: the rows by descending date
\* text, rows of equal date in rowid order.
RECURSIVE InsertByDateDesc(_, _)
InsertByDateDesc(r, s) ==
    IF s = <<>> THEN <<r>>
    ELSE IF LexRank(Head(s).date) < LexRank(r.date) THEN <<r>> \o s
    ELSE <<Head(s)>> \o InsertByDateDesc(r, Tail(s))

RECURSIVE OrderByDateDesc(_)
OrderByDateDesc(rows) ==
    IF rows = <<>> THEN <<>>
    ELSE InsertByDateDesc(rows[Len(rows)], OrderByDateDesc(SubSeq(rows, 1, Len(rows) - 1)))

get_all_expenses(rows) == OrderByDateDesc(rows)

\* pd.to_datetime of a YYYY-MM-DD text: the day it names, as its number in
\* the year 2024.
DateValue(t) ==
    CASE t = "2024-01-01" -> 1
      [] t = "2024-01-10" -> 10
      [] t = "2024-01-15" -> 15

\* filter_expenses: the boolean masks, evaluated on one row of df. The date
\* column holds datetimes and the bound is parsed to one; str.contains takes
\* the keyword as a regular expression.
st_Mask(r, c) ==
    /\ TruthyStr(c.start_date) => DateValue(r.date) >= DateValue(c.start_date[1])
    /\ TruthyStr(c.end_date) => DateValue(r.date) <= DateValue(c.end_date[1])
    /\ (TruthyStr(c.category) /\ c.category[1] # "All") => r.category = c.category[1]
    /\ c.min_amount # None => r.amount >= c.min_amount[1]
    /\ c.max_amount # None => r.amount <= c.max_amount[1]
    /\ TruthyChars(c.desc_keyword) => ReSearch(c.desc_keyword[1], r.description)

filter_expenses(df, c) ==
    LET mask(r) == st_Mask(r, c) IN SelectSeq(df, mask)

\* Lines 167-170: the widget values as filter_expenses takes them.
st_WidgetDefaults ==
    [start_date |-> None, end_date |-> None, category |-> "All",
     min_amount |-> 0, max_amount |-> 0, desc_keyword |-> EmptyStr]

st_Criteria(w) ==
    [start_date |-> w.start_date, end_date |-> w.end_date,
     category |-> Some(w.category),
     min_amount |-> IF w.min_amount > 0 THEN Some(w.min_amount) ELSE None,
     max_amount |-> IF w.max_amount > 0 THEN Some(w.max_amount) ELSE None,
     desc_keyword |-> Some(w.desc_keyword)]

\* How the last run of the script ended: the message it showed and the file
\* row at which an import stopped (0: none).
st_Outcome(action, msg, rowError) ==
    [action |-> action, msg |-> msg, rowError |-> rowError]

\* One run of the script from the load to the table (lines 148-192).
\* for the table rows and the widget values w.
st_run(action, msg, rows, w) ==
    LET df == get_all_expenses(rows)
        filtered_df == filter_expenses(df, st_Criteria(w))
    IN  /\ st_filtered_df' = filtered_df
        /\ st_stats' = st_get_stats(filtered_df)
        /\ st_outlier_ids' = st_detect_outliers(filtered_df)
        /\ st_outcome' = st_Outcome(action, msg, 0)

\* Before the script has run.
StInit ==
    /\ st_widgets = st_WidgetDefaults
    /\ st_filtered_df = <<>>
    /\ st_stats = EmptyStats
    /\ st_outlier_ids = {}
    /\ st_outcome = st_Outcome("none", "", 0)
    /\ st_report = NoReport

----------------------------------------------------------------------------
(* Tkinter front-end: filtering and the dashboard *)

\* create_widgets: the filter entries are empty, the category box shows All.
FilterDefaults ==
    [start_date |-> "", end_date |-> "", category |-> "All",
     min_amount |-> "", max_amount |-> "", desc_keyword |-> EmptyStr]

\* float(text) for the amount texts the model draws; any other raises ValueError.
ParsesAsFloat(t) == t \in {"0", "1", "5", "0.0", "1.0", "5.0"}
FloatOf(t) ==
    CASE t \in {"0", "0.0"} -> 0 [] t \in {"1", "1.0"} -> 1 [] t \in {"5", "5.0"} -> 5

\* `x or None`
OrNone(t) == IF t = "" THEN None ELSE Some(t)
OrNoneChars(t) == IF t = EmptyStr THEN None ELSE Some(t)

\* float(min_amount) if min_amount else None
FloatOrNone(t) == IF t = "" THEN None ELSE Some(FloatOf(t))

\* refresh_expenses raises ValueError, before it queries, when a non-empty
\* amount bound is no number.
RefreshRaises(fv) ==
    \/ (fv.min_amount # "" /\ ~ParsesAsFloat(fv.min_amount))
    \/ (fv.max_amount # "" /\ ~ParsesAsFloat(fv.max_amount))

\* The arguments refresh_expenses passes to get_filtered_expenses.
QueryArgs(fv) ==
    [start_date |-> OrNone(fv.start_date), end_date |-> OrNone(fv.end_date),
     category |-> OrNone(fv.category),
     min_amount |-> FloatOrNone(fv.min_amount),
     max_amount |-> FloatOrNone(fv.max_amount),
     desc_keyword |-> OrNoneChars(fv.desc_keyword)]

\* How a callback ended: the filter texts the last refresh read, the exception that left it
\* uncaught (raised), the message box it showed (msg), whether it ran the
\* filter query and with which arguments, and the file row at which an import
\* stopped (0: none).
Outcome(action, read, raised, msg, queried, args, rowError) ==
    [action |-> action, read |-> read, raised |-> raised, msg |-> msg,
     queried |-> queried, args |-> args, rowError |-> rowError]

\* SELECT DISTINCT category FROM expenses
get_all_categories(rows) == CatsOf(rows)

\* refresh_expenses then refresh_dashboard, as the callbacks run them, for the
\* filter texts fv and the table rows. When refresh_expenses raises, nothing
\* after it runs: a callback that wraps the calls in try/except shows its
\* error box (caught), any other lets the exception out to Tk.
Refresh(action, fv, rows, okMsg, caught) ==
    IF RefreshRaises(fv)
    THEN /\ UNCHANGED <<filtered_expenses, outlier_ids, stats>>
         /\ outcome' = Outcome(action, fv, IF caught = "" THEN "ValueError" ELSE "",
                               caught, FALSE, NoCriteria, 0)
    ELSE LET expenses == get_filtered_expenses(rows, QueryArgs(fv)) IN
         /\ filtered_expenses' = expenses
         /\ outlier_ids' = detect_outliers(expenses)
         /\ stats' \in get_stats_results(expenses)
         /\ outcome' = Outcome(action, fv, "", okMsg, TRUE, QueryArgs(fv), 0)

\* __init__ up to create_widgets: nothing loaded yet.
TkInit ==
    /\ filter_vars = FilterDefaults
    /\ filtered_expenses = <<>>
    /\ outlier_ids = {}
    /\ stats = EmptyStats
    /\ cat_values = {}
    /\ outcome = Outcome("none", FilterDefaults, "", "", FALSE, NoCriteria, 0)
    /\ form = FormDefaults
    /\ selected_item_id = None
    /\ edit_mode = FALSE
    /\ report = NoReport
    /\ loaded = None

TkStarted == outcome.action # "none"

\* refresh_filters: the box lists All and the stored categories and shows All.
refresh_filters(fv, rows) == [fv EXCEPT !.category = "All"]
refresh_filters_values(rows) == {"All"} \cup get_all_categories(rows)

\* __init__: refresh_filters, refresh_expenses, refresh_dashboard.
TkStart ==
    /\ ~TkStarted
    /\ filter_vars' = refresh_filters(FilterDefaults, store)
    /\ cat_values' = refresh_filters_values(store)
    /\ Refresh("__init__", filter_vars', store, "", "")
    /\ UNCHANGED tkFormVars

\* The user edits one of the filter entries, or picks a category in the box.
TypeFilter(f, v) ==
    /\ TkStarted
    /\ f = "category" => v \in cat_values
    /\ filter_vars' = [filter_vars EXCEPT ![f] = v]
    /\ UNCHANGED <<filtered_expenses, outlier_ids, stats, cat_values, outcome, tkFormVars>>

apply_filters ==
    /\ TkStarted
    /\ Refresh("apply_filters", filter_vars, store, "", "")
    /\ UNCHANGED <<filter_vars, cat_values, tkFormVars>>

reset_filters ==
    /\ TkStarted
    /\ filter_vars' = FilterDefaults
    /\ Refresh("reset_filters", filter_vars', store, "", "")
    /\ UNCHANGED <<cat_values, tkFormVars>>

----------------------------------------------------------------------------
(* CSV files: DataFrame.to_csv, pd.read_csv and the import loop *)

\* A file is its header (columns), its data rows as the texts of their cells,
\* and, for the record, whether an export wrote it and from which rows.
AllColumns == {"ID", "Amount", "Category", "Date", "Description"}

\* No file written or chosen yet.
NoFile == [columns |-> {}, rows |-> <<>>, byExport |-> FALSE, exported |-> <<>>]

\* repr of a float, as to_csv writes it.
FloatRepr(a) == CASE a = 0 -> "0.0" [] a = 1 -> "1.0" [] a = 5 -> "5.0"

\* df.to_csv(file, index=False) of rows under the header ID, Amount,
\* Category, Date, Description: a text is written as it is, the empty text
\* as an empty cell.
ToCsv(rows) ==
    [columns |-> AllColumns,
     rows |-> [i \in DOMAIN rows |->
                 [Amount |-> FloatRepr(rows[i].amount), Category |-> rows[i].category,
                  Date |-> rows[i].date, Description |-> rows[i].description]],
     byExport |-> TRUE,
     exported |-> rows]

\* pd.read_csv reads an empty cell, and the texts nan and NA, as NaN.
NanStr == <<"n", "a", "n">>
NaTexts == {"", "nan", "NA"}
NaCharTexts == {EmptyStr, NanStr, <<"N", "A">>}

\* str(cell) of a cell read by read_csv: str(NaN) is 'nan'.
StrOfCell(t) == IF t \in NaTexts THEN "nan" ELSE t
StrOfCharsCell(t) == IF t \in NaCharTexts THEN NanStr ELSE t

\* The exception one file row raises in the import loop, "" if none:
\* row['Amount'] and the like raise KeyError without the column; float() of
\* a text that is no number raises ValueError; float(NaN) is nan, which
\* sqlite3 binds as NULL, and amount is NOT NULL.
RowError(cols, cells) ==
    IF ~({"Amount", "Category", "Date"} \subseteq cols) THEN "KeyError"
    ELSE IF cells.Amount \in NaTexts THEN "IntegrityError"
    ELSE IF ~ParsesAsFloat(cells.Amount) THEN "ValueError"
    ELSE ""

\* The arguments the loop passes to add_expense for one file row.
RowPayload(cols, cells) ==
    [amount |-> FloatOf(cells.Amount),
     category |-> StrOfCell(cells.Category),
     date |-> StrOfCell(cells.Date),
     description |-> IF "Description" \in cols
                     THEN StrOfCharsCell(cells.Description) ELSE EmptyStr]

\* for _, row in df.iterrows(): add_expense(...), each call committing its
\* row, from file row k on, until a row raises: the table and counter then,
\* and the row that raised (0: none).
RECURSIVE ImportLoop(_, _, _, _)
ImportLoop(rows, s, f, k) ==
    IF k > Len(f.rows) THEN [store |-> rows, seq |-> s, rowError |-> 0]
    ELSE IF RowError(f.columns, f.rows[k]) # ""
        THEN [store |-> rows, seq |-> s, rowError |-> k]
    ELSE ImportLoop(InsertRow(rows, s, RowPayload(f.columns, f.rows[k])),
                    AutoIncrement(rows, s), f, k + 1)

\* ExpenseTracker.export_csv: the rows on show go to the file.
export_csv ==
    /\ TkStarted
    /\ file' = ToCsv(filtered_expenses)
    /\ outcome' = Outcome("export_csv", outcome.read, "", "Exported", FALSE, NoCriteria, 0)
    /\ UNCHANGED <<store, seq, filter_vars, filtered_expenses, outlier_ids, stats, cat_values,
                   tkFormVars>>

\* ExpenseTracker.import_data, f the file chosen in the dialog.
import_data(f) ==
    /\ TkStarted
    /\ LET r == ImportLoop(store, seq, f, 1) IN
        /\ store' = r.store
        /\ seq' = r.seq
        /\ IF r.rowError # 0
           THEN /\ outcome' = Outcome("import_data", outcome.read, "", "Import Error",
                                      FALSE, NoCriteria, r.rowError)
                /\ UNCHANGED <<filter_vars, filtered_expenses, outlier_ids, stats, cat_values>>
           ELSE /\ filter_vars' = refresh_filters(filter_vars, r.store)
                /\ cat_values' = refresh_filters_values(r.store)
                /\ Refresh("import_data", filter_vars', r.store, "Imported", "Import Error")
    /\ UNCHANGED <<file, tkFormVars>>

\* Streamlit: Export Filtered, CSV. The date column holds datetimes, which
\* to_csv writes back as YYYY-MM-DD.
st_export ==
    /\ st_outcome.action # "none"
    /\ file' = ToCsv(st_filtered_df)
    /\ st_outcome' = st_Outcome("export", "", 0)
    /\ UNCHANGED <<store, seq, st_widgets, st_filtered_df, st_stats, st_outlier_ids, st_report>>

\* Streamlit: the upload block, f the file uploaded. After a full import the script reruns; after
\* a failed one st.error shows and the page stays as it was computed.
st_import(f) ==
    /\ st_outcome.action # "none"
    /\ LET r == ImportLoop(store, seq, f, 1) IN
        /\ store' = r.store
        /\ seq' = r.seq
        /\ IF r.rowError # 0
           THEN /\ st_outcome' = st_Outcome("import", "Import failed", r.rowError)
                /\ UNCHANGED <<st_filtered_df, st_stats, st_outlier_ids>>
           ELSE st_run("import", "Imported", r.store, st_widgets)
    /\ UNCHANGED <<st_widgets, st_report, file>>

----------------------------------------------------------------------------
(* Spec: the store under any sequence of add/update/delete calls *)

\* Ids a caller may name: every id ever assigned and one never assigned.
CallIds == 1..(seq + 1)

\* No call made yet.
NoHistory ==
    /\ ret = NoneValue
    /\ lastOp = [kind |-> "init", id |-> 0, found |-> FALSE]
    /\ before = <<>>
    /\ log = <<>>
    /\ issued = <<>>

Init ==
    /\ store = init_db_store
    /\ seq = init_db_seq
    /\ NoHistory
    /\ TkInit
    /\ StInit
    /\ file = NoFile
    /\ crit = <<>>

CallAdd ==
    /\ Len(log) < MaxOps
    /\ UNCHANGED <<tkVars, stVars, file, crit>>
    /\ before' = store
    /\ \E p \in Payloads :
        /\ add_expense(p)
        /\ lastOp' = [kind |-> "add", id |-> 0, found |-> FALSE]
        /\ log' = Append(log, [kind |-> "add", id |-> 0, p |-> p])
        /\ issued' = Append(issued, AutoIncrement(store, seq))

CallUpdate ==
    /\ Len(log) < MaxOps
    /\ UNCHANGED <<tkVars, stVars, file, crit>>
    /\ before' = store
    /\ \E id \in CallIds, p \in Payloads :
        /\ update_expense(id, p)
        /\ lastOp' = [kind |-> "update", id |-> id, found |-> id \in Ids(store)]
        /\ log' = Append(log, [kind |-> "update", id |-> id, p |-> p])
        /\ issued' = issued

CallDelete ==
    /\ Len(log) < MaxOps
    /\ UNCHANGED <<tkVars, stVars, file, crit>>
    /\ before' = store
    /\ \E id \in CallIds :
        /\ delete_expense(id)
        /\ lastOp' = [kind |-> "delete", id |-> id, found |-> id \in Ids(store)]
        /\ log' = Append(log, [kind |-> "delete", id |-> id, p |-> CHOOSE p \in Payloads : TRUE])
        /\ issued' = issued

Next == CallAdd \/ CallUpdate \/ CallDelete

Spec == Init /\ [][Next]_vars

----------------------------------------------------------------------------
(* Claims about the store (Spec) *)

\* The id the k-th call of the log, an add, was given: ids start at 1 on an
\* empty store and each add takes the next one.
CreateId(k) == Cardinality({ j \in 1..k : log[j].kind = "add" })

Deleted(k) ==
    \E j \in (k + 1)..Len(log) : log[j].kind = "delete" /\ log[j].id = CreateId(k)

UpdatesOf(k) ==
    { j \in (k + 1)..Len(log) : log[j].kind = "update" /\ log[j].id = CreateId(k) }

\* The record that must be read for the create at position k of the log.
NetRecord(k) ==
    MkRow(CreateId(k),
          IF UpdatesOf(k) = {} THEN log[k].p ELSE log[Max(UpdatesOf(k))].p)

Surviving == { k \in DOMAIN log : log[k].kind = "add" /\ ~Deleted(k) }

\* C1: an unfiltered read returns exactly the net effect of the calls made so
\* far: one row per add that was not deleted later, with the values of the
\* last update of its id (its creation values if there was none), each once.
C1_NetEffect ==
    LET read == get_filtered_expenses(store, NoCriteria) IN
    /\ Len(read) = Cardinality(Surviving)
    /\ \A k \in Surviving : \E i \in DOMAIN read : read[i] = NetRecord(k)
    /\ \A i \in DOMAIN read : \E k \in Surviving : read[i] = NetRecord(k)
    /\ \A i, j \in DOMAIN read : i # j => read[i].id # read[j].id

C1_Witness ==
    /\ Len(log) = 3
    /\ log[1].kind = "add"
    /\ log[2].kind = "update" /\ log[2].id = 1 /\ log[2].p # log[1].p
    /\ log[3].kind = "add"
    /\ Len(get_filtered_expenses(store, NoCriteria)) = 2

DistinctIds == \A i, j \in DOMAIN store : i # j => store[i].id # store[j].id

\* C2: ids are pairwise distinct in every state; update_expense leaves the id
\* of every row as it was; the id add_expense assigns is greater than every id
\* assigned before, so a freed id is never given out again.
C2_Ids ==
    [][ /\ DistinctIds'
        /\ lastOp'.kind = "update" => MapIds(store') = MapIds(store)
        /\ lastOp'.kind = "add" =>
              /\ Len(store') = Len(store) + 1
              /\ \A i \in DOMAIN store : store'[i] = store[i]
              /\ \A k \in DOMAIN issued : store'[Len(store')].id > issued[k]
              /\ \A i \in DOMAIN store : store'[Len(store')].id > store[i].id
      ]_vars

C2_Witness ==
    /\ lastOp.kind = "add"
    /\ issued = <<1, 2>>
    /\ Ids(store) = {2}

UnknownIdCall == lastOp.kind \in {"update", "delete"} /\ ~lastOp.found

NotFound == "NotFound"

\* C3: update_expense and delete_expense, called with an id no row has, report
\* NotFound to the caller and leave the table as it was.
C3_NotFoundReported == UnknownIdCall => (ret = NotFound /\ store = before)

\* What the code does on an unknown id: the table is left as it was, and the
\* caller gets the same None a successful call returns.
C3_SilentNoOp == UnknownIdCall => (ret = NoneValue /\ store = before)


----------------------------------------------------------------------------
(* SpecStats: both front-ends compute their view of one stored collection *)

StatPayloads ==
    { [amount |-> 0, category |-> "Food", date |-> "2024-01-01", description |-> <<"a">>],
      [amount |-> 1, category |-> "Rent", date |-> "2024-01-15", description |-> EmptyStr],
      [amount |-> 5, category |-> "Food", date |-> "2024-01-15", description |-> <<"A", "b">>] }

\* The tables n adds leave behind: ids 1..n, field values from P.
TablesOf(P, n) ==
    { [i \in 1..n |-> MkRow(i, f[i])] : f \in [1..n -> P] }

StatStores == UNION { TablesOf(StatPayloads, n) : n \in 0..MaxColl }

InitStats ==
    /\ store \in StatStores
    /\ seq = Len(store)
    /\ NoHistory
    /\ TkInit
    /\ StInit
    /\ file = NoFile
    /\ crit = <<>>

\* The Tkinter application starts on the database.
TkStartView ==
    /\ TkStart
    /\ UNCHANGED <<coreVars, stVars, file, crit>>

\* The Streamlit script runs on the database.
StRunView ==
    /\ st_outcome.action = "none"
    /\ st_run("run", "", store, st_widgets)
    /\ UNCHANGED <<st_widgets, st_report>>
    /\ UNCHANGED <<coreVars, tkVars, file, crit>>

\* The Tkinter application is closed and started again on the same database:
\* a new Python process, with its own string hashing.
TkRestartView ==
    /\ TkStarted
    /\ Len(log) < MaxRestarts
    /\ filter_vars' = refresh_filters(FilterDefaults, store)
    /\ cat_values' = refresh_filters_values(store)
    /\ Refresh("__init__", filter_vars', store, "", "")
    /\ form' = FormDefaults
    /\ selected_item_id' = None
    /\ edit_mode' = FALSE
    /\ report' = NoReport
    /\ loaded' = None
    /\ lastOp' = [kind |-> "tk_restart", id |-> 0, found |-> FALSE, stats |-> stats]
    /\ log' = Append(log, [kind |-> "tk_restart"])
    /\ UNCHANGED <<store, seq, ret, before, issued, stVars, file, crit>>

\* The Streamlit script runs again on the same database.
StRerunView ==
    /\ st_outcome.action # "none"
    /\ Len(log) < MaxRestarts
    /\ st_run("run", "", store, st_widgets)
    /\ lastOp' = [kind |-> "st_rerun", id |-> 0, found |-> FALSE, stats |-> st_stats]
    /\ log' = Append(log, [kind |-> "st_rerun"])
    /\ UNCHANGED <<store, seq, ret, before, issued, tkVars, st_widgets, st_report, file, crit>>

NextStats == TkStartView \/ StRunView \/ TkRestartView \/ StRerunView

SpecStats == InitStats /\ [][NextStats]_vars

TkViewed == outcome.action # "none" /\ outcome.raised = ""
StViewed == st_outcome.action # "none"

\* |amount - mean| > 2 * (population standard deviation) over the amounts of
\* rows, cleared of fractions and roots: with n rows, S their sum and Q the sum
\* of their squares, mean = S/n and the deviation is sqrt(n*Q - S*S)/n.
PopulationOutlier(a, rows) ==
    LET n == Len(rows)
        S == SumAmounts(rows)
        Q == SumSquares(rows)
    IN  (n * a - S) * (n * a - S) > 4 * (n * Q - S * S)

OutliersAsClaimed(rows, flagged) ==
    /\ flagged \subseteq Ids(rows)
    /\ \A i \in DOMAIN rows :
          rows[i].id \in flagged <=> PopulationOutlier(rows[i].amount, rows)

\* C9 (Tkinter half): detect_outliers flags exactly the rows more than two
\* population standard deviations from the mean of the collection.
C9_TkOutliers ==
    (TkViewed /\ filtered_expenses # <<>>) =>
        OutliersAsClaimed(filtered_expenses, outlier_ids)

\* C9: in both front-ends, for a non-empty collection, the flagged ids are ids
\* of the collection, and an id is flagged iff its amount is more than two
\* population standard deviations (divisor n) from the collection's mean.
C9_Outliers ==
    /\ C9_TkOutliers
    /\ (StViewed /\ st_filtered_df # <<>>) =>
           OutliersAsClaimed(st_filtered_df, st_outlier_ids)

\* The set flagged by the rule |amount - average| > 2 * std with the average
\* and std of a KPI dict.
FlaggedBy(rows, kpi) ==
    { rows[i].id : i \in
        { j \in DOMAIN rows :
            GtTwoStd(AbsRat(Minus(rows[j].amount, kpi.average)), kpi.std) } }

\* C10 (within one front-end): the flagged set is the one that get_stats'
\* average and std give.
C10_Within ==
    /\ (TkViewed /\ filtered_expenses # <<>>) =>
           outlier_ids = FlaggedBy(filtered_expenses, stats)
    /\ (StViewed /\ st_filtered_df # <<>>) =>
           st_outlier_ids = FlaggedBy(st_filtered_df, st_stats)

\* C10: the mean and deviation detect_outliers flags with are the average and
\* std get_stats returns for the same collection, within each front-end and
\* from one front-end to the other.
C10_SameStatistics ==
    /\ C10_Within
    /\ (TkViewed /\ StViewed /\ filtered_expenses # <<>>
            /\ Range(filtered_expenses) = Range(st_filtered_df)) =>
           /\ stats.average = st_stats.average
           /\ stats.std = st_stats.std
           /\ outlier_ids = st_outlier_ids

\* C14: two evaluations of get_stats over the same collection return the
\* same most_freq_cat, also when categories tie for the highest count and
\* from one run of the program to the next.
C14_SameModalCategory ==
    /\ (lastOp.kind = "tk_restart" /\ filtered_expenses # <<>>) =>
           stats.most_freq_cat = lastOp.stats.most_freq_cat
    /\ (lastOp.kind = "st_rerun" /\ st_filtered_df # <<>>) =>
           st_stats.most_freq_cat = lastOp.stats.most_freq_cat

\* What the code does: Streamlit's mode()[0] is the same category on every
\* run; Tkinter's max over a set returns a category of highest count, which
\* one of several depends on the iteration order of the set in that process.
C14_ModalCategory ==
    /\ (lastOp.kind = "st_rerun" /\ st_filtered_df # <<>>) =>
           st_stats.most_freq_cat = lastOp.stats.most_freq_cat
    /\ (TkViewed /\ filtered_expenses # <<>>) =>
           stats.most_freq_cat \in ModalCats(filtered_expenses)

\* C15: for the empty collection get_stats returns, in both front-ends, a
\* result without any KPI field, and detect_outliers the empty set.
C15_EmptyResult ==
    /\ (TkViewed /\ filtered_expenses = <<>>) =>
           (stats.keys = {} /\ DOMAIN stats = {"keys"} /\ outlier_ids = {})
    /\ (StViewed /\ st_filtered_df = <<>>) =>
           (st_stats.keys = {} /\ DOMAIN st_stats = {"keys"} /\ st_outlier_ids = {})

C15_Witness ==
    /\ TkViewed /\ StViewed
    /\ filtered_expenses = <<>> /\ st_filtered_df = <<>>
    /\ lastOp.kind = "tk_restart"

----------------------------------------------------------------------------
(* SpecFilter: both filters applied to a table, then to their own result *)

FilterPayloads == Payloads

FilterStores == UNION { TablesOf(FilterPayloads, n) : n \in 0..MaxRows }

Fields == {"start_date", "end_date", "category", "min_amount", "max_amount", "desc_keyword"}

\* The values a caller supplies for each criterion.
Supplies ==
    [start_date |-> {Some("2024-01-10")},
     end_date |-> {Some("2024-01-10")},
     category |-> {Some("All"), Some("Food")},
     min_amount |-> {Some(1)},
     max_amount |-> {Some(0), Some(1)},
     desc_keyword |-> {Some(<<"a">>), Some(<<"_">>), Some(<<".">>)}]

CriteriaSets ==
    { c \in [start_date : Supplies.start_date \cup {None},
             end_date : Supplies.end_date \cup {None},
             category : Supplies.category \cup {None},
             min_amount : Supplies.min_amount \cup {None},
             max_amount : Supplies.max_amount \cup {None},
             desc_keyword : Supplies.desc_keyword \cup {None}] :
        Cardinality({ f \in Fields : c[f] # None }) <= MaxSupplied }

InitFilter ==
    /\ store \in FilterStores
    /\ seq = Len(store)
    /\ NoHistory
    /\ TkInit
    /\ StInit
    /\ file = NoFile
    /\ crit = <<>>

\* Both filters run on the whole table with the same criteria.
FilterTable ==
    /\ crit = <<>>
    /\ \E c \in CriteriaSets :
        /\ crit' = <<c>>
        /\ filtered_expenses' = get_filtered_expenses(store, c)
        /\ st_filtered_df' = filter_expenses(get_all_expenses(store), c)
    /\ UNCHANGED <<coreVars, filter_vars, outlier_ids, stats, cat_values, outcome,
                   tkFormVars, st_widgets, st_stats, st_outlier_ids, st_outcome,
                   st_report, file>>

\* Each filter runs again, on its own last result, with further criteria.
FilterResult ==
    /\ Len(crit) = 1
    /\ \E c \in CriteriaSets :
        /\ crit' = Append(crit, c)
        /\ filtered_expenses' = get_filtered_expenses(filtered_expenses, c)
        /\ st_filtered_df' = filter_expenses(st_filtered_df, c)
    /\ UNCHANGED <<coreVars, filter_vars, outlier_ids, stats, cat_values, outcome,
                   tkFormVars, st_widgets, st_stats, st_outlier_ids, st_outcome,
                   st_report, file>>

NextFilter == FilterTable \/ FilterResult

SpecFilter == InitFilter /\ [][NextFilter]_vars

RECURSIVE LowerAll(_)
LowerAll(t) == IF t = <<>> THEN <<>> ELSE <<Lower(Head(t))>> \o LowerAll(Tail(t))

\* k occurs in t as a run of consecutive characters.
Substring(k, t) ==
    \E i \in 0..(Len(t) - Len(k)) : SubSeq(t, i + 1, i + Len(k)) = k

\* The criteria of the claim, on one record; dates are calendar dates.
Holds(r, c) ==
    /\ c.start_date # None => DateValue(r.date) >= DateValue(c.start_date[1])
    /\ c.end_date # None => DateValue(r.date) <= DateValue(c.end_date[1])
    /\ (c.category # None /\ c.category[1] # "All") => r.category = c.category[1]
    /\ c.min_amount # None => r.amount >= c.min_amount[1]
    /\ c.max_amount # None => r.amount <= c.max_amount[1]
    /\ c.desc_keyword # None =>
            Substring(LowerAll(c.desc_keyword[1]), LowerAll(r.description))

Matching(rows, c) == { r \in Range(rows) : Holds(r, c) }

\* C6: for every table and criteria set both filters return exactly the
\* records for which every supplied criterion holds, the keyword as a
\* case-insensitive substring of the description.
C6_ExactFilter ==
    Len(crit) = 1 =>
        /\ Range(filtered_expenses) = Matching(store, crit[1])
        /\ Range(st_filtered_df) = Matching(store, crit[1])

\* A keyword that holds none of the characters LIKE or a regular expression
\* reads as an operator.
PlainKeyword(c) ==
    c.desc_keyword # None =>
        \A i \in DOMAIN c.desc_keyword[1] : c.desc_keyword[1][i] \notin {"_", "%", "."}

\* C6, for keywords of plain characters: there both filters are exact.
C6_ExactForPlainKeywords ==
    (Len(crit) = 1 /\ PlainKeyword(crit[1])) =>
        /\ Range(filtered_expenses) = Matching(store, crit[1])
        /\ Range(st_filtered_df) = Matching(store, crit[1])

\* The one criteria set that asks for both a and b, where there is one: the
\* later start, the earlier end, the larger minimum, the smaller maximum, and
\* the category and keyword of whichever set names one.
Unset(f, c) == c[f] = None \/ (f = "category" /\ c[f] = Some("All"))

Combinable(a, b) ==
    \A f \in {"category", "desc_keyword"} : Unset(f, a) \/ Unset(f, b) \/ a[f] = b[f]

Pick(f, a, b) == IF Unset(f, a) THEN b[f] ELSE a[f]

Later(x, y) ==
    IF x = None THEN y ELSE IF y = None THEN x
    ELSE IF TextLeq(x[1], y[1]) THEN y ELSE x
Earlier(x, y) ==
    IF x = None THEN y ELSE IF y = None THEN x
    ELSE IF TextLeq(x[1], y[1]) THEN x ELSE y
Larger(x, y) ==
    IF x = None THEN y ELSE IF y = None THEN x
    ELSE IF x[1] <= y[1] THEN y ELSE x
Smaller(x, y) ==
    IF x = None THEN y ELSE IF y = None THEN x
    ELSE IF x[1] <= y[1] THEN x ELSE y

Combine(a, b) ==
    [start_date |-> Later(a.start_date, b.start_date),
     end_date |-> Earlier(a.end_date, b.end_date),
     category |-> Pick("category", a, b),
     min_amount |-> Larger(a.min_amount, b.min_amount),
     max_amount |-> Smaller(a.max_amount, b.max_amount),
     desc_keyword |-> Pick("desc_keyword", a, b)]

\* C7: filtering by A and then by B gives the set that B and then A gives, and
\* the set that filtering once by A and B combined gives; filtering a result
\* again by the criteria that produced it leaves it as it is.
C7_CommutativeIdempotent ==
    Len(crit) = 2 =>
        LET A == crit[1]
            B == crit[2]
            df == get_all_expenses(store)
        IN  /\ Range(filtered_expenses) =
                  Range(get_filtered_expenses(get_filtered_expenses(store, B), A))
            /\ Range(st_filtered_df) =
                  Range(filter_expenses(filter_expenses(df, B), A))
            /\ Combinable(A, B) =>
                  /\ Range(filtered_expenses) =
                        Range(get_filtered_expenses(store, Combine(A, B)))
                  /\ Range(st_filtered_df) =
                        Range(filter_expenses(df, Combine(A, B)))
            /\ A = B =>
                  /\ filtered_expenses = get_filtered_expenses(store, A)
                  /\ st_filtered_df = filter_expenses(df, A)

C7_Witness ==
    /\ Len(crit) = 2
    /\ crit[1] # crit[2]
    /\ crit[1] # NoCriteria /\ crit[2] # NoCriteria
    /\ Combinable(crit[1], crit[2])
    /\ Len(store) = 2
    /\ Len(filtered_expenses) = 1
    /\ Len(get_filtered_expenses(store, crit[1])) = 2
    /\ Len(get_filtered_expenses(store, crit[2])) = 2 - 1

----------------------------------------------------------------------------
(* SpecTk: the Tkinter application and its filter panel *)

TkStores == UNION { TablesOf(Payloads, n) : n \in 0..MaxTkRows }

\* What the user may type into each filter entry.
FilterTexts ==
    [start_date |-> {"", "2024-01-10", "abc"},
     end_date |-> {"", "2024-01-10", "2024-02-30"},
     category |-> {"All"} \cup Categories,
     min_amount |-> {"", "1", "abc"},
     max_amount |-> {"", "1", "abc"},
     desc_keyword |-> {EmptyStr, <<"a">>}]

InitTk ==
    /\ store \in TkStores
    /\ seq = Len(store)
    /\ NoHistory
    /\ TkInit
    /\ StInit
    /\ file = NoFile
    /\ crit = <<>>

TkStartUp ==
    /\ TkStart
    /\ UNCHANGED <<coreVars, stVars, file, crit>>

Typed(fv) == { f \in Fields : fv[f] # FilterDefaults[f] }

TkType ==
    /\ \E f \in Fields : \E v \in FilterTexts[f] :
        /\ Cardinality(Typed([filter_vars EXCEPT ![f] = v])) <= MaxTyped
        /\ TypeFilter(f, v)
    /\ UNCHANGED <<coreVars, stVars, file, crit>>

TkApplyFilters ==
    /\ apply_filters
    /\ UNCHANGED <<coreVars, stVars, file, crit>>

TkResetFilters ==
    /\ reset_filters
    /\ UNCHANGED <<coreVars, stVars, file, crit>>

NextTk == TkStartUp \/ TkType \/ TkApplyFilters \/ TkResetFilters

SpecTk == InitTk /\ [][NextTk]_vars

\* The texts of the model that name a calendar date as YYYY-MM-DD.
ValidDate(t) == t \in {"2024-01-01", "2024-01-10", "2024-01-15"}

MalformedDate(fv) ==
    \/ (fv.start_date # "" /\ ~ValidDate(fv.start_date))
    \/ (fv.end_date # "" /\ ~ValidDate(fv.end_date))

MalformedAmount(fv) ==
    \/ (fv.min_amount # "" /\ ~ParsesAsFloat(fv.min_amount))
    \/ (fv.max_amount # "" /\ ~ParsesAsFloat(fv.max_amount))

Filtering == outcome.action = "apply_filters"

\* C8: a filter applied with a malformed date or amount fails validation and
\* runs no query; the malformed value never reaches the query.
C8_MalformedRejected ==
    (Filtering /\ (MalformedDate(outcome.read) \/ MalformedAmount(outcome.read))) =>
        (outcome.raised # "" /\ ~outcome.queried)

\* C8, for the amounts alone: float() raises before the query is built.
C8_MalformedAmountRejected ==
    (Filtering /\ MalformedAmount(outcome.read)) =>
        (outcome.raised = "ValueError" /\ ~outcome.queried)

----------------------------------------------------------------------------
(* SpecIO: exports and imports through both front-ends *)

IoPayloads ==
    { [amount |-> 1, category |-> "Food", date |-> "2024-01-01", description |-> <<"a">>],
      [amount |-> 5, category |-> "Rent", date |-> "2024-01-15", description |-> EmptyStr] }

IoStores == UNION { TablesOf(IoPayloads, n) : n \in 0..MaxIoRows }

\* Rows of a file the user made: a good one, one whose amount is no number,
\* one whose amount cell is empty.
UserRows ==
    { [Amount |-> "1.0", Category |-> "Food", Date |-> "2024-01-10", Description |-> <<"a">>],
      [Amount |-> "abc", Category |-> "Rent", Date |-> "2024-01-15", Description |-> <<"a">>],
      [Amount |-> "", Category |-> "Food", Date |-> "2024-01-01", Description |-> EmptyStr] }

\* Headers of such a file: complete, without Amount, without ID and Description.
UserHeaders == { AllColumns, AllColumns \ {"Amount"}, AllColumns \ {"ID", "Description"} }

UserFiles ==
    { [columns |-> h, rows |-> r, byExport |-> FALSE, exported |-> <<>>] :
        h \in UserHeaders,
        r \in UNION { [1..n -> UserRows] : n \in 0..MaxFileRows } }

InitIO ==
    /\ store \in IoStores
    /\ seq = Len(store)
    /\ NoHistory
    /\ TkInit
    /\ StInit
    /\ file = NoFile
    /\ crit = <<>>

\* One front-end works on the database in a run: the Tkinter application ...
IoTkStart ==
    /\ st_outcome.action = "none"
    /\ TkStart
    /\ UNCHANGED <<coreVars, stVars, file, crit>>

\* ... or the Streamlit script.
IoStRun ==
    /\ ~TkStarted
    /\ st_outcome.action = "none"
    /\ st_run("run", "", store, st_widgets)
    /\ UNCHANGED <<coreVars, tkVars, st_widgets, st_report, file, crit>>

\* The user picks a category in the Tkinter filter box and presses Filter.
IoTkFilter ==
    /\ \E v \in cat_values : TypeFilter("category", v)
    /\ UNCHANGED <<coreVars, stVars, file, crit>>

IoTkApply ==
    /\ apply_filters
    /\ UNCHANGED <<coreVars, stVars, file, crit>>

\* The user picks a category in the Streamlit select box: the script reruns.
IoStFilter ==
    /\ st_outcome.action # "none"
    /\ \E v \in {"All"} \cup get_all_categories(store) :
        /\ st_widgets' = [st_widgets EXCEPT !.category = v]
        /\ st_run("run", "", store, st_widgets')
    /\ UNCHANGED <<coreVars, tkVars, st_report, file, crit>>

IoTkExport ==
    /\ export_csv
    /\ UNCHANGED <<ret, lastOp, before, log, issued, stVars, crit>>

IoStExport ==
    /\ st_export
    /\ UNCHANGED <<ret, lastOp, before, log, issued, tkVars, crit>>

\* The files at hand: the user's own, and the one the last export wrote.
FilesAtHand == UserFiles \cup (IF file = NoFile THEN {} ELSE {file})

IoTkImport ==
    /\ Len(log) < MaxImports
    /\ \E f \in FilesAtHand :
        /\ import_data(f)
        /\ lastOp' = [kind |-> "tk_import", id |-> 0, found |-> FALSE, file |-> f]
        /\ log' = Append(log, [kind |-> "tk_import"])
    /\ before' = store
    /\ UNCHANGED <<ret, issued, stVars, crit>>

IoStImport ==
    /\ Len(log) < MaxImports
    /\ \E f \in FilesAtHand :
        /\ st_import(f)
        /\ lastOp' = [kind |-> "st_import", id |-> 0, found |-> FALSE, file |-> f]
        /\ log' = Append(log, [kind |-> "st_import"])
    /\ before' = store
    /\ UNCHANGED <<ret, issued, tkVars, crit>>

NextIO ==
    \/ IoTkStart \/ IoStRun \/ IoTkFilter \/ IoTkApply \/ IoStFilter
    \/ IoTkExport \/ IoStExport \/ IoTkImport \/ IoStImport

SpecIO == InitIO /\ [][NextIO]_vars

\* The last call was an import that stopped at a file row.
ImportFailedAtRow ==
    \/ (lastOp.kind = "tk_import" /\ outcome.action = "import_data" /\ outcome.rowError # 0)
    \/ (lastOp.kind = "st_import" /\ st_outcome.action = "import" /\ st_outcome.rowError # 0)

FailedRow ==
    IF lastOp.kind = "tk_import" THEN outcome.rowError ELSE st_outcome.rowError

\* C4: an import that meets a failing row commits no row at all: the table
\* after it is the table before it, also when good rows precede the bad one.
C4_AllOrNothing == ImportFailedAtRow => store = before

\* What the code does: every row before the failing one stays committed.
C4_PrefixCommitted ==
    ImportFailedAtRow =>
        /\ Len(store) = Len(before) + FailedRow - 1
        /\ SubSeq(store, 1, Len(before)) = before

\* The last call imported a file that an export had written.
ImportedExport == lastOp.kind \in {"tk_import", "st_import"} /\ lastOp.file.byExport

SameFields(r, x) ==
    /\ r.amount = x.amount
    /\ r.category = x.category
    /\ r.date = x.date
    /\ r.description = x.description

\* C5: importing the file an export of k records wrote adds exactly k rows,
\* which carry, row for row, the amount, category, date and description of
\* the exported records, an empty description included.
C5_RoundTrip ==
    ImportedExport =>
        LET x == lastOp.file.exported IN
        /\ Len(store) = Len(before) + Len(x)
        /\ \A i \in DOMAIN x : SameFields(store[Len(before) + i], x[i])

\* C5, for exported records whose description is neither empty nor a text
\* read_csv takes for a missing value.
C5_RoundTripOfPlainRows ==
    (ImportedExport /\ \A i \in DOMAIN lastOp.file.exported :
                          lastOp.file.exported[i].description \notin NaCharTexts) =>
        LET x == lastOp.file.exported IN
        /\ Len(store) = Len(before) + Len(x)
        /\ \A i \in DOMAIN x : SameFields(store[Len(before) + i], x[i])

----------------------------------------------------------------------------
(* Period reports: pd.to_datetime, Series.dt.to_period and groupby().sum() *)

MaxReportRows == 3  \* rows in the table of a run of SpecReport

\* pd.to_datetime of one text of the date column: the day it names (ordinal:
\* its number of days after Monday 2023-12-25), NaT for the texts pandas
\* takes for a missing value, an exception for any other text.
NaT == [nat |-> TRUE, raises |-> FALSE, year |-> 0, month |-> 0, ordinal |-> 0]
Day(y, m, o) == [nat |-> FALSE, raises |-> FALSE, year |-> y, month |-> m, ordinal |-> o]
ToDatetime(t) ==
    CASE t = "2023-12-31" -> Day(2023, 12, 6)
      [] t = "2024-01-01" -> Day(2024, 1, 7)
      [] t = "2024-01-10" -> Day(2024, 1, 16)
      [] t = "2024-01-15" -> Day(2024, 1, 21)
      [] t = "2024-04-01" -> Day(2024, 4, 98)
      [] t \in {"", "nan"} -> NaT
      [] OTHER -> [NaT EXCEPT !.nat = FALSE, !.raises = TRUE]

\* dt.to_period(g) of a day: the week from Monday to Sunday (by the ordinal
\* of its Monday), the month, the quarter or the year that holds it.
ToPeriod(g, d) ==
    CASE g = "W" -> [year |-> 0, sub |-> d.ordinal - (d.ordinal % 7)]
      [] g = "M" -> [year |-> d.year, sub |-> d.month]
      [] g = "Q" -> [year |-> d.year, sub |-> ((d.month - 1) \div 3) + 1]
      [] OTHER -> [year |-> d.year, sub |-> 0]

\* The rows of one group.
GroupRows(rows, g, k) ==
    LET in(r) == ~ToDatetime(r.date).nat /\ ToPeriod(g, ToDatetime(r.date)) = k
    IN  SelectSeq(rows, in)

\* df.groupby(df['Date'].dt.to_period(g))['Amount'].sum(): one total per
\* period that holds a row; groupby drops the rows whose key is NaT.
GroupBySum(rows, g, name) ==
    LET keys == { ToPeriod(g, ToDatetime(rows[i].date)) :
                    i \in { j \in DOMAIN rows : ~ToDatetime(rows[j].date).nat } }
    IN  [period |-> name, raised |-> "",
         totals |-> [k \in keys |-> SumAmounts(GroupRows(rows, g, k))],
         members |-> [k \in keys |-> Ids(GroupRows(rows, g, k))]]

\* The branch report_period takes: W, M, Q, and Y for anything else.
Granularity(period) == IF period \in {"W", "M", "Q"} THEN period ELSE "Y"

\* ExpenseTracker.report_period: no rows on show, nothing to report; a date
\* text pandas cannot parse, the exception leaves the callback.
report_period(period) ==
    /\ TkStarted
    /\ report' =
         IF filtered_expenses = <<>> THEN [NoReport EXCEPT !.period = "No Data"]
         ELSE IF \E i \in DOMAIN filtered_expenses :
                    ToDatetime(filtered_expenses[i].date).raises
              THEN [NoReport EXCEPT !.period = period, !.raised = "ValueError"]
         ELSE GroupBySum(filtered_expenses, Granularity(period), period)
    /\ UNCHANGED <<filter_vars, filtered_expenses, outlier_ids, stats, cat_values, outcome,
                   form, selected_item_id, edit_mode, loaded>>

\* Streamlit, lines 243-260: the report block of a run, for the report type
\* picked in the select box.
st_Granularity(report_type) ==
    CASE report_type = "Weekly" -> "W"
      [] report_type = "Monthly" -> "M"
      [] report_type = "Quarterly" -> "Q"
      [] OTHER -> "Y"

st_report_block(filtered_df, report_type) ==
    IF report_type # "None" /\ filtered_df # <<>>
    THEN GroupBySum(filtered_df, st_Granularity(report_type), report_type)
    ELSE NoReport

----------------------------------------------------------------------------
(* SpecReport: both front-ends report on one stored collection *)

\* Records as the form and the import leave them; the last one is what the
\* import loop stores for a file row whose Date cell is empty.
ReportPayloads ==
    { [amount |-> 1, category |-> "Food", date |-> "2023-12-31", description |-> <<"a">>],
      [amount |-> 5, category |-> "Rent", date |-> "2024-01-01", description |-> EmptyStr],
      [amount |-> 1, category |-> "Food", date |-> "2024-01-10", description |-> <<"a">>],
      [amount |-> 5, category |-> "Food", date |-> "2024-04-01", description |-> <<"a">>],
      [amount |-> 1, category |-> "Rent", date |-> "nan", description |-> <<"a">>] }

ReportStores == UNION { TablesOf(ReportPayloads, n) : n \in 0..MaxReportRows }

InitReport ==
    /\ store \in ReportStores
    /\ seq = Len(store)
    /\ NoHistory
    /\ TkInit
    /\ StInit
    /\ file = NoFile
    /\ crit = <<>>

RpTkStart ==
    /\ TkStart
    /\ UNCHANGED <<coreVars, stVars, file, crit>>

\* One of the four report buttons.
RpTkReport ==
    /\ \E period \in {"W", "M", "Q", "Y"} : report_period(period)
    /\ UNCHANGED <<coreVars, stVars, file, crit>>

\* The user picks a report type: the script runs with it.
RpStRun ==
    /\ \E report_type \in {"None", "Weekly", "Monthly", "Quarterly", "Yearly"} :
        /\ st_run("run", "", store, st_widgets)
        /\ st_report' = st_report_block(st_filtered_df', report_type)
    /\ UNCHANGED <<coreVars, tkVars, st_widgets, file, crit>>

NextReport == RpTkStart \/ RpTkReport \/ RpStRun

SpecReport == InitReport /\ [][NextReport]_vars

RECURSIVE SumTotals(_)
SumTotals(f) ==
    IF DOMAIN f = {} THEN 0
    ELSE LET k == CHOOSE k \in DOMAIN f : TRUE
         IN  f[k] + SumTotals([j \in DOMAIN f \ {k} |-> f[j]])

\* The report rep covers the collection rows: every row lies in exactly one
\* of its periods, and its period totals add up to the KPI total kpis.total.
Covers(rep, rows, kpis) ==
    /\ \A i \in DOMAIN rows :
          Cardinality({ k \in DOMAIN rep.members : rows[i].id \in rep.members[k] }) = 1
    /\ "total" \in kpis.keys
    /\ kpis.total = Rat(SumTotals(rep.totals), 1)

TkReported == report.period \in {"W", "M", "Q", "Y"} /\ report.raised = ""
StReported == st_report.period \in {"Weekly", "Monthly", "Quarterly", "Yearly"}

\* C11: whatever the stored collection and whichever of week, month, quarter
\* and year is chosen, a report assigns every record of the collection to
\* exactly one period and its period totals add up to get_stats' total.
C11_PeriodTotals ==
    /\ TkReported => Covers(report, filtered_expenses, stats)
    /\ StReported => Covers(st_report, st_filtered_df, st_stats)

\* What the code does: C11 for the collections whose date texts all name a
\* day; a record whose date reads as NaT is in no period.
Dated(rows) == \A i \in DOMAIN rows : ~ToDatetime(rows[i].date).nat

C11_DatedPeriodTotals ==
    /\ (TkReported /\ Dated(filtered_expenses)) => Covers(report, filtered_expenses, stats)
    /\ (StReported /\ Dated(st_filtered_df)) => Covers(st_report, st_filtered_df, st_stats)

C11_DatedWitness ==
    /\ TkReported /\ report.period = "W"
    /\ Len(filtered_expenses) = 3 /\ Dated(filtered_expenses)
    /\ Cardinality(DOMAIN report.totals) = 2

----------------------------------------------------------------------------
(* Tkinter front-end: the Add/Edit form, the table selection, Edit, Delete *)

\* str.strip() of the category and date texts the model draws.
Strip(t) == CASE t = " " -> "" [] t = " Rent " -> "Rent" [] OTHER -> t

RECURSIVE LStripChars(_)
LStripChars(cs) ==
    IF cs # <<>> /\ Head(cs) = " " THEN LStripChars(Tail(cs)) ELSE cs

RECURSIVE StripChars(_)
StripChars(cs) ==
    LET l == LStripChars(cs) IN
    IF l # <<>> /\ l[Len(l)] = " " THEN StripChars(SubSeq(l, 1, Len(l) - 1)) ELSE l

\* datetime.strptime(date, '%Y-%m-%d') returns: the text names a day of the
\* calendar, month and day with or without a leading zero.
StrptimeAccepts(t) ==
    t \in {"2023-12-31", "2024-01-01", "2024-01-10", "2024-01-15", "2024-04-01", "2024-1-5"}

\* Python truthiness of self.selected_item_id: None and 0 are falsy.
TruthyId(o) == o # None /\ o[1] # 0

\* The exception the validation of handle_add raises for the form texts f
\* (lines 267-273), "" if none.
HandleAddError(f) ==
    IF ~ParsesAsFloat(f.amount) THEN "ValueError: could not convert string to float"
    ELSE IF ~StrptimeAccepts(Strip(f.date)) THEN "ValueError: time data does not match format"
    ELSE IF Strip(f.category) = "" THEN "ValueError: Category required"
    ELSE ""

\* The values handle_add passes on to the store.
FormPayload(f) ==
    [amount |-> FloatOf(f.amount), category |-> Strip(f.category),
     date |-> Strip(f.date), description |-> StripChars(f.description)]

FailedToAddEdit == "Failed to add/edit expense"

\* The user fills in the form.
TypeForm(f) ==
    /\ TkStarted
    /\ form' = f
    /\ UNCHANGED <<filter_vars, filtered_expenses, outlier_ids, stats, cat_values, outcome,
                   selected_item_id, edit_mode, report, loaded>>

\* ExpenseTracker.handle_add, the Add/Save button. Whatever raises inside
\* the try, the refresh calls included, ends in the error box.
handle_add ==
    /\ TkStarted
    /\ IF HandleAddError(form) # ""
       THEN /\ outcome' = Outcome("handle_add", outcome.read, "", FailedToAddEdit,
                                  FALSE, NoCriteria, 0)
            /\ UNCHANGED <<store, seq, ret, form, selected_item_id, edit_mode, filter_vars,
                           cat_values, filtered_expenses, outlier_ids, stats>>
       ELSE /\ IF edit_mode /\ TruthyId(selected_item_id)
               THEN /\ update_expense(selected_item_id[1], FormPayload(form))
                    /\ edit_mode' = FALSE
                    /\ selected_item_id' = None
               ELSE /\ add_expense(FormPayload(form))
                    /\ UNCHANGED <<edit_mode, selected_item_id>>
            /\ form' = FormDefaults
            /\ filter_vars' = refresh_filters(filter_vars, store')
            /\ cat_values' = refresh_filters_values(store')
            /\ Refresh("handle_add", filter_vars', store', "", FailedToAddEdit)
    /\ UNCHANGED <<report, loaded>>

\* on_tree_select: the table shows self.filtered_expenses; sel is the row the
\* selection now holds, None when it holds none.
on_tree_select(sel) ==
    /\ TkStarted
    /\ IF sel = None THEN TRUE ELSE sel[1] \in Ids(filtered_expenses)
    /\ selected_item_id' = sel
    /\ UNCHANGED <<filter_vars, filtered_expenses, outlier_ids, stats, cat_values, outcome,
                   form, edit_mode, report, loaded>>

\* sqlite3 hands the REAL amount back as a float; StringVar.set shows its repr.
RowToForm(r) ==
    [amount |-> FloatRepr(r.amount), category |-> r.category,
     date |-> r.date, description |-> r.description]

\* ExpenseTracker.start_edit, the Edit button: without a selection a warning
\* box and nothing else; a selected id the table no longer holds, nothing.
start_edit ==
    /\ TkStarted
    /\ IF ~TruthyId(selected_item_id)
       THEN UNCHANGED <<form, edit_mode, loaded>>
       ELSE IF selected_item_id[1] \in Ids(store)
       THEN LET row == CHOOSE r \in Range(store) : r.id = selected_item_id[1] IN
            /\ form' = RowToForm(row)
            /\ edit_mode' = TRUE
            /\ loaded' = selected_item_id
       ELSE UNCHANGED <<form, edit_mode, loaded>>
    /\ UNCHANGED <<store, seq, ret, filter_vars, filtered_expenses, outlier_ids, stats,
                   cat_values, outcome, selected_item_id, report>>

\* ExpenseTracker.delete_expense, the Delete button; yes is the answer to
\* the askyesno box. An exception of the refresh leaves the callback.
ExpenseTracker_delete_expense(yes) ==
    /\ TkStarted
    /\ IF ~TruthyId(selected_item_id)
       THEN /\ outcome' = Outcome("delete_expense", outcome.read, "",
                                  "Select an expense to delete.", FALSE, NoCriteria, 0)
            /\ UNCHANGED <<store, seq, ret, selected_item_id, filtered_expenses,
                           outlier_ids, stats>>
       ELSE IF ~yes
       THEN /\ outcome' = Outcome("delete_expense", outcome.read, "", "", FALSE, NoCriteria, 0)
            /\ UNCHANGED <<store, seq, ret, selected_item_id, filtered_expenses,
                           outlier_ids, stats>>
       ELSE /\ delete_expense(selected_item_id[1])
            /\ selected_item_id' = None
            /\ Refresh("delete_expense", filter_vars, store', "", "")
    /\ UNCHANGED <<filter_vars, cat_values, form, edit_mode, report, loaded>>

----------------------------------------------------------------------------
(* SpecForm: the Tkinter application in use: form, table, filter, import *)

MaxFormRows == 1    \* rows in the table when the application starts
MaxFormOps == 2     \* presses of Add/Save, Delete and Import in one run

FormPayloads ==
    { [amount |-> 5, category |-> "Rent", date |-> "2024-01-15", description |-> EmptyStr] }

FormStores == UNION { TablesOf(FormPayloads, n) : n \in 0..MaxFormRows }

\* What the user may put into the form: a content the validation accepts
\* (blanks around the category, a date without leading zeros), an amount
\* that is no number, a day the calendar does not have, a category of
\* blanks only.
FormTexts ==
    { [amount |-> "1", category |-> " Rent ", date |-> "2024-1-5", description |-> <<" ">>],
      [amount |-> "abc", category |-> "Food", date |-> "2024-01-10", description |-> <<"a">>],
      [amount |-> "1", category |-> "Food", date |-> "2024-02-30", description |-> <<"a">>],
      [amount |-> "1", category |-> " ", date |-> "2024-01-10", description |-> <<"a">>] }

\* What the user may type into the Min Amount entry of the filter panel.
MinAmountTexts == {"", "5", "abc"}

\* Files the user may import: one good row; a good row and one whose amount
\* is no number; a row whose Date cell is empty.
FormFiles ==
    { [columns |-> AllColumns, rows |-> r, byExport |-> FALSE, exported |-> <<>>] :
        r \in { << [Amount |-> "1.0", Category |-> "Food", Date |-> "2024-01-10",
                    Description |-> <<"a">>] >>,
                << [Amount |-> "1.0", Category |-> "Food", Date |-> "2024-01-10",
                    Description |-> <<"a">>],
                   [Amount |-> "abc", Category |-> "Rent", Date |-> "2024-01-15",
                    Description |-> <<"a">>] >>,
                << [Amount |-> "5.0", Category |-> "Rent", Date |-> "",
                    Description |-> <<"a">>] >> } }

InitForm ==
    /\ store \in FormStores
    /\ seq = Len(store)
    /\ NoHistory
    /\ TkInit
    /\ StInit
    /\ file = NoFile
    /\ crit = <<>>

\* The button pressed last.
Press(kind) == [kind |-> kind, id |-> 0, found |-> FALSE]

FmStart ==
    /\ TkStart
    /\ UNCHANGED <<coreVars, stVars, file, crit>>

FmTypeForm ==
    /\ \E f \in FormTexts : TypeForm(f)
    /\ UNCHANGED <<coreVars, stVars, file, crit>>

FmTypeFilter ==
    /\ \E v \in MinAmountTexts : TypeFilter("min_amount", v)
    /\ UNCHANGED <<coreVars, stVars, file, crit>>

FmApplyFilters ==
    /\ apply_filters
    /\ UNCHANGED <<coreVars, stVars, file, crit>>

FmResetFilters ==
    /\ reset_filters
    /\ UNCHANGED <<coreVars, stVars, file, crit>>

FmSelect ==
    /\ \E sel \in {None} \cup { Some(i) : i \in Ids(filtered_expenses) } : on_tree_select(sel)
    /\ UNCHANGED <<coreVars, stVars, file, crit>>

FmEdit ==
    /\ start_edit
    /\ UNCHANGED <<before, lastOp, log, issued, stVars, file, crit>>

FmAdd ==
    /\ Len(log) < MaxFormOps
    /\ handle_add
    /\ lastOp' = Press("handle_add")
    /\ log' = Append(log, [kind |-> "press"])
    /\ UNCHANGED before
    /\ UNCHANGED <<issued, stVars, file, crit>>

FmDelete ==
    /\ Len(log) < MaxFormOps
    /\ \E yes \in BOOLEAN : ExpenseTracker_delete_expense(yes)
    /\ lastOp' = Press("delete_expense")
    /\ log' = Append(log, [kind |-> "press"])
    /\ UNCHANGED before
    /\ UNCHANGED <<issued, stVars, file, crit>>

FmImport ==
    /\ Len(log) < MaxFormOps
    /\ \E f \in FormFiles : import_data(f)
    /\ lastOp' = Press("import_data")
    /\ log' = Append(log, [kind |-> "press"])
    /\ UNCHANGED before
    /\ UNCHANGED <<ret, issued, stVars, crit>>

NextForm ==
    \/ FmStart \/ FmTypeForm \/ FmTypeFilter \/ FmApplyFilters \/ FmResetFilters
    \/ FmSelect \/ FmEdit \/ FmAdd \/ FmDelete \/ FmImport

SpecForm == InitForm /\ [][NextForm]_vars

\* The step is a press of the button handled by kind.
Pressed(kind) == log' # log /\ lastOp'.kind = kind

\* A calendar date written YYYY-MM-DD.
ValidIsoDate(t) ==
    t \in {"2023-12-31", "2024-01-01", "2024-01-10", "2024-01-15", "2024-04-01"}

\* C12: whatever was created, updated and imported through the front-end,
\* every stored record has a non-empty category and a date that is a calendar
\* date in YYYY-MM-DD form.
C12_ValidRecords ==
    \A i \in DOMAIN store : store[i].category # "" /\ ValidIsoDate(store[i].date)

\* What the code does for the form: a press of Add/Save stores nothing when
\* the validation fails, and what it stores has a stripped, non-empty category
\* and a date strptime accepts (leading zeros or not); the import loop checks
\* neither field.
C12_FormValidated ==
    [][ Pressed("handle_add") =>
          /\ HandleAddError(form) # "" => store' = store
          /\ \A i \in DOMAIN store' :
                (i \notin DOMAIN store \/ store'[i] # store[i]) =>
                    /\ store'[i].category \notin {"", " "}
                    /\ StrptimeAccepts(store'[i].date)
      ]_vars

\* The filter widgets hold what the last refresh read, and it is well-formed.
CriteriaApplied == TkStarted /\ outcome.read = filter_vars /\ ~RefreshRaises(filter_vars)

\* C13: after every completed action that can change what is on show,
\* filtered_expenses is the records of the current table that match the
\* current criteria and outlier_ids is detect_outliers of that collection.
C13_DisplayCurrent ==
    CriteriaApplied =>
        /\ filtered_expenses = get_filtered_expenses(store, QueryArgs(filter_vars))
        /\ outlier_ids = detect_outliers(filtered_expenses)

\* What the code does: the outlier set is always that of the collection on
\* show, and the collection on show is current after every action whose
\* refresh ran.
C13_RefreshedDisplay ==
    /\ outlier_ids = detect_outliers(filtered_expenses)
    /\ (CriteriaApplied /\ outcome.queried) =>
          filtered_expenses = get_filtered_expenses(store, QueryArgs(filter_vars))

\* C16: a press of Add/Save that ends in 'Failed to add/edit expense' leaves
\* the table as it was, whatever the form and the filter entries hold.
C16_FailedAddNoChange ==
    [][ (Pressed("handle_add") /\ outcome'.msg = FailedToAddEdit) => store' = store ]_vars

\* What the code does: the table is as it was when the validation of the
\* form failed; a failure of the refresh comes after the commit.
C16_InvalidFormNoChange ==
    [][ (Pressed("handle_add") /\ HandleAddError(form) # "") =>
            (store' = store /\ outcome'.msg = FailedToAddEdit) ]_vars

\* C17: a press of Add/Save in edit mode changes the record start_edit loaded
\* and no other, and inserts none; and edit mode is never on without a
\* selected record of the table.
C17_SavesLoaded ==
    [][ /\ (Pressed("handle_add") /\ edit_mode) =>
              /\ Len(store') = Len(store)
              /\ \A i \in DOMAIN store :
                    store[i].id # loaded[1] => store'[i] = store[i]
              /\ HandleAddError(form) = "" =>
                    \E i \in DOMAIN store :
                        store[i].id = loaded[1] /\ store'[i] = MkRow(loaded[1], FormPayload(form))
        /\ edit_mode' => (TruthyId(selected_item_id') /\ selected_item_id'[1] \in Ids(store'))
      ]_vars

\* What the code does: in edit mode with a selection, the press changes the
\* selected record only; without a selection it inserts.
C17_SavesSelected ==
    [][ (Pressed("handle_add") /\ edit_mode /\ HandleAddError(form) = "") =>
            IF TruthyId(selected_item_id)
            THEN store' = UpdateRows(store, selected_item_id[1], FormPayload(form))
            ELSE Len(store') = Len(store) + 1
      ]_vars

====
